---- MODULE Spec2Model ----
(***************************************************************************)
(* Model of ctfcli's core: Image (src/ctfcli/core/image.py), the wrapper   *)
(* around one container of the docker engine, and Test                     *)
(* (src/ctfcli/core/test.py), the runner of one verification script in a   *)
(* private temporary directory.                                            *)
(*                                                                         *)
(* The docker engine, the filesystem and the script are the environment:   *)
(* every exit status and every output they can produce is a               *)
(* nondeterministic input of the action that makes the call.               *)
(***************************************************************************)
EXTENDS Integers, Sequences, FiniteSets, TLC

\* ------------------------------------------------------------------ bounds
\* Containers the engine starts in one behaviour.
MaxContainers == 2
\* History counters saturate here.
MaxCount == 2
\* Exposed ports an image declares.
MaxPorts == 2
\* The longest timeout given to wait_for_exposed_ports, in seconds.
MaxTimeout == 2
\* Files a Test requires.
MaxFiles == 2
\* Characters of an image name.
MaxNameLen == 5
\* Calls of Test.run in one behaviour.
MaxTestRuns == 2

\* ------------------------------------------------------------- constants
\* self.container = None (no container); container ids are 1, 2, ...
None == 0
\* s.settimeout(1), in seconds
ConnectTimeout == 1
\* self._ip = None
NoIp == "None"
\* Addresses the engine hands to containers.
Addrs == {"172.17.0.2", "172.17.0.3"}

VARIABLES
    build_path,     \* whether Image was given a build_path
    built,          \* self.built
    container,      \* self.container
    _ip,            \* self._ip
    alive,          \* engine: the containers that are running
    addrs,          \* engine: addrs[c] is the address of container c
    exitWarnings,   \* history: "exited unexpectedly" warnings since the last start
    resolves,       \* history: address inspections since the last start
    call,           \* the last operation of the handle and what it did
    prev,           \* the operation before it and what it returned
    wpc,            \* wait_for_exposed_ports: "idle", or "loop" inside it
    timeout,        \* its timeout argument
    ports,          \* its local ports
    port,           \* index in ports of the port the for loop is at
    elapsed,        \* default_timer() - start_time
    attemptedAt,    \* history: per connected port, when the attempt began
    acceptedAt,     \* history: per connected port, when connect_ex returned 0
    tried,          \* history: index of the last port connect_ex was called on
    timeoutWarnings,\* history: "Timeout reached" warnings of this wait
    exposed,        \* history: what the engine answered about the exposed ports
    name,           \* self.name, a string as the sequence of its characters
    basename,       \* self.basename
    orphan          \* disk: export left a temporary archive it did not return

imageVars == <<name, basename, orphan, build_path, built, container, _ip, alive, addrs,
               exitWarnings, resolves, call, prev>>

waitVars == <<wpc, timeout, ports, port, elapsed, attemptedAt, acceptedAt,
              tried, timeoutWarnings, exposed>>

\* Test (src/ctfcli/core/test.py)
VARIABLES
    files,          \* self.files, each path as the sequence of its parts
    scriptPath,     \* self.script, a path
    given,          \* history: the arguments Test() was called with
    init,           \* history: how Test() ended
    outside,        \* disk: the paths copied to a place outside temp_dir
    disk,           \* the private directories that exist on disk
    made,           \* how many directories mkdtemp has made
    tpc,            \* where Test.run is: "idle" outside a call, "new" before
                    \* the Test is constructed
    temp_dir,       \* its local temp_dir, a directory number
    file,           \* index of the file its copy loop is at
    error,          \* its local error
    result,         \* its local result
    pending,        \* the exception its try block lets through to finally
    thrown,         \* history: the exception raised inside the try block
    script,         \* history: how the script ended
    outcome         \* what the caller of the last Test.run got

testArgs == <<files, scriptPath, given, init>>

testVars == <<testArgs, outside, disk, made, tpc, temp_dir, file, error, result, pending,
              thrown, script, outcome>>

Sat(n) == IF n < MaxCount THEN n + 1 ELSE MaxCount

\* Python truthiness of an Optional[str]: None and "" are falsy.
Truthy(s) == s \notin {NoIp, ""}

\* ------------------------------------------------------ returned values
Absent == [kind |-> "absent", id |-> 0, str |-> ""]
Raised == [kind |-> "raise", id |-> 0, str |-> ""]
RetBool(b) == [kind |-> IF b THEN "true" ELSE "false", id |-> 0, str |-> ""]
RetId(c) == IF c = None THEN Absent ELSE [kind |-> "id", id |-> c, str |-> ""]
RetStr(s) == IF s = NoIp THEN Absent ELSE [kind |-> "str", id |-> 0, str |-> s]
RetName == [kind |-> "name", id |-> 0, str |-> ""]

\* What one operation did: its result, the exception it raised and the engine
\* call that raised it, and how many engine calls and warnings it made.
Call(o, r, e, at, i, rs, b, s, w) ==
    [op |-> o, ret |-> r, exc |-> e, at |-> at,
     inspects |-> i, resolves |-> rs, builds |-> b, starts |-> s, warns |-> w]

NoCall == Call("init", Absent, "none", "", 0, 0, 0, 0, 0)

\* prev: the operation called before operation o and what it returned, kept
\* for an operation called twice in a row and for running read right after
\* stop(); Other for any other pair of calls.
Other == [op |-> "other", ret |-> Absent]
Remember(o) ==
    IF call.op = o \/ (call.op = "stop" /\ o = "running")
    THEN [op |-> call.op, ret |-> call.ret]
    ELSE Other

\* The engine was not asked about the exposed ports.
Unasked == [status |-> "unasked", none |-> TRUE, tcp |-> <<>>]

\* The locals of wait_for_exposed_ports outside a call of it.
NoWait ==
    /\ exposed' = Unasked
    /\ wpc' = "idle"
    /\ timeout' = 0
    /\ ports' = <<>>
    /\ port' = 1
    /\ elapsed' = 0
    /\ attemptedAt' = <<>>
    /\ acceptedAt' = <<>>
    /\ tried' = 0
    /\ timeoutWarnings' = 0

\* One operation at a time on a handle (spec section 5): operation o begins
\* when no wait_for_exposed_ports is in progress.
Handle(o) ==
    /\ wpc = "idle"
    /\ prev' = Remember(o)
    /\ NoWait
    /\ UNCHANGED <<name, basename, testVars>>

\* ---------------------------------------------------------------- engine
\* docker inspect --format={{json .State.Running}}: "true" for a running
\* container, "false" for one that exited and is not yet removed, a non-zero
\* exit ("error") when the engine cannot answer (the container ran with --rm
\* and is gone, or the engine is down).  Without a container no call is made.
InspectOutcomes ==
    IF container = None THEN {"none"}
    ELSE IF container \in alive THEN {"true", "error"} ELSE {"false", "error"}

\* Exit status of an engine command.
ExitCodes == {0, 1}

\* Exit status of docker run: the engine starts at most MaxContainers
\* containers.
StartExits == IF Len(addrs) < MaxContainers THEN ExitCodes ELSE {1}

\* Exit status of the docker build an operation may make on the way: no
\* build is made once built.
BuildExits == IF built THEN {0} ELSE ExitCodes

\* ---------------------------------------------------------- Image.running
\* The property read with inspect outcome o: its value, the container field
\* it leaves, the engine calls and warnings it made, the exception raised.
\* running as it would be if the detected exit left self.container set.
running_keeps_container(o) ==
    IF container = None
    THEN [val |-> FALSE, container |-> None, inspects |-> 0, warns |-> 0,
          exc |-> "none"]
    ELSE IF o = "error"
    THEN [val |-> FALSE, container |-> container, inspects |-> 1, warns |-> 0,
          exc |-> "CalledProcessError"]
    ELSE IF o = "true"
    THEN [val |-> TRUE, container |-> container, inspects |-> 1, warns |-> 0,
          exc |-> "none"]
    ELSE [val |-> FALSE, container |-> container, inspects |-> 1, warns |-> 1,
          exc |-> "none"]

\* running as it would be without the fast path for no container: the
\* engine is asked about None and answers that nothing runs.
running_always_inspects(o) ==
    IF container # None /\ o = "error"
    THEN [val |-> FALSE, container |-> container, inspects |-> 1, warns |-> 0,
          exc |-> "CalledProcessError"]
    ELSE IF container # None /\ o = "true"
    THEN [val |-> TRUE, container |-> container, inspects |-> 1, warns |-> 0,
          exc |-> "none"]
    ELSE [val |-> FALSE, container |-> None, inspects |-> 1, warns |-> 1,
          exc |-> "none"]

running(o) ==
    IF container = None
    THEN [val |-> FALSE, container |-> None, inspects |-> 0, warns |-> 0,
          exc |-> "none"]
    ELSE IF o = "error"
    THEN [val |-> FALSE, container |-> container, inspects |-> 1, warns |-> 0,
          exc |-> "CalledProcessError"]
    ELSE IF o = "true"
    THEN [val |-> TRUE, container |-> container, inspects |-> 1, warns |-> 0,
          exc |-> "none"]
    ELSE [val |-> FALSE, container |-> None, inspects |-> 1, warns |-> 1,
          exc |-> "none"]

\* The warning of running is about the container started last.
Warned(r) == IF r.warns = 1 THEN Sat(exitWarnings) ELSE exitWarnings

\* The caller reads image.running.
IsRunning(o) ==
    LET r == running(o) IN
    /\ container' = r.container
    /\ exitWarnings' = Warned(r)
    /\ call' = Call("running",
                    IF r.exc # "none" THEN Raised ELSE RetBool(r.val),
                    r.exc, IF r.exc # "none" THEN "inspect" ELSE "",
                    r.inspects, 0, 0, 0, r.warns)
    /\ Handle("running")
    /\ UNCHANGED orphan
    /\ UNCHANGED <<build_path, built, _ip, alive, addrs, resolves>>

\* --------------------------------------------------------------- Image.ip
\* docker inspect --format={{.NetworkSettings.IPAddress}} on container c:
\* its address, an empty line (no address on the default network, or the
\* container has just exited), or a non-zero exit.
ResolveOutcomes == {"ok", "empty", "error"}

\* The engine is asked only while nothing truthy is cached.
ResolveInputs == IF Truthy(_ip) THEN {"ok"} ELSE ResolveOutcomes

\* Whether ip asks the engine: only while nothing truthy is cached.
\* must_resolve as it would be if ip asked the engine on every read.
must_resolve_always(cached) == TRUE

must_resolve(cached) == ~Truthy(cached)

\* The property read with inspect outcome o and resolve outcome res: its
\* value, the cache it leaves, what running did (r), whether the engine was
\* asked for the address, the exception raised and the call that raised it.
ip(o, res) ==
    LET r == running(o) IN
    IF r.exc # "none"
    THEN [val |-> NoIp, cache |-> _ip, r |-> r, resolved |-> 0,
          exc |-> r.exc, at |-> "inspect"]
    ELSE IF ~r.val
    THEN [val |-> NoIp, cache |-> _ip, r |-> r, resolved |-> 0,
          exc |-> "none", at |-> ""]
    ELSE IF must_resolve(_ip)
    THEN IF res = "error"
         THEN [val |-> NoIp, cache |-> _ip, r |-> r, resolved |-> 1,
               exc |-> "CalledProcessError", at |-> "inspect_ip"]
         ELSE LET v == IF res = "ok" THEN addrs[container] ELSE "" IN
              [val |-> v, cache |-> v, r |-> r, resolved |-> 1,
               exc |-> "none", at |-> ""]
    ELSE [val |-> _ip, cache |-> _ip, r |-> r, resolved |-> 0,
          exc |-> "none", at |-> ""]

\* The address inspection of ip is about the container started last.
Resolved(a) == IF a.resolved = 1 THEN Sat(resolves) ELSE resolves

\* The caller reads image.ip.
Ip(o, res) ==
    LET a == ip(o, res) IN
    /\ Handle("ip")
    /\ UNCHANGED orphan
    /\ container' = a.r.container
    /\ exitWarnings' = Warned(a.r)
    /\ _ip' = a.cache
    /\ resolves' = Resolved(a)
    /\ call' = Call("ip", IF a.exc # "none" THEN Raised ELSE RetStr(a.val),
                    a.exc, a.at, a.r.inspects, a.resolved, 0, 0, a.r.warns)
    /\ UNCHANGED <<build_path, built, alive, addrs>>

\* ---------------------------------------------------------- Image.__init__
\* The characters of image names: two letters and the two separators.
Chars == {"a", "b", "/", ":"}

\* `ch in s`
Has(s, ch) == \E i \in DOMAIN s : s[i] = ch

\* s.split(sep): the pieces of s between the occurrences of sep, empty pieces
\* kept.
RECURSIVE split(_, _)
split(s, sep) ==
    IF ~Has(s, sep) THEN <<s>>
    ELSE LET i == CHOOSE i \in DOMAIN s :
                     s[i] = sep /\ \A j \in 1..(i - 1) : s[j] # sep
         IN <<SubSeq(s, 1, i - 1)>> \o split(SubSeq(s, i + 1, Len(s)), sep)

\* self.basename for the name n: name.split(":")[0].split("/")[-1] when the
\* name has a separator, the name itself when not.
basename_of(n) ==
    IF Has(n, "/") \/ Has(n, ":")
    THEN LET parts == split(split(n, ":")[1], "/") IN parts[Len(parts)]
    ELSE n

\* An image reference [host[:port]/]component(/component)*[:tag]: no piece
\* empty, a colon only before the tag and before the port of a host.
WellFormed(n) ==
    LET comps == split(n, "/") IN
    \A i \in DOMAIN comps :
        LET pieces == split(comps[i], ":") IN
        /\ \A k \in DOMAIN pieces : pieces[k] # <<>>
        /\ Len(pieces) <= 2
        /\ Len(pieces) = 2 =>
              i = Len(comps) \/ (i = 1 /\ Len(comps) >= 2)

\* The names given to Image().
Names ==
    {n \in UNION {[1..k -> Chars] : k \in 1..MaxNameLen} : WellFormed(n)}

\* Image(name): the constructor stores the name and derives basename.
ImageInit(n) ==
    /\ name = <<>>
    /\ name' = n
    /\ basename' = basename_of(n)
    /\ UNCHANGED <<orphan, build_path, built, container, _ip, alive, addrs,
                   exitWarnings, resolves, call, prev>>
    /\ UNCHANGED <<waitVars, testVars>>

\* ------------------------------------------------------------ Image.build
\* build as it would be if it set built whatever docker build answered.
build_always_marks_built(b) == TRUE

\* built after build() when docker build exits with b.
build(b) == IF b = 0 THEN TRUE ELSE built

\* The implicit build of run, push, export and _get_exposed_port_strings:
\* `if not self.built: self.build()`, the result of build() dropped.
ensure_built(b) == IF ~built THEN build(b) ELSE built
builds_made == IF ~built THEN 1 ELSE 0

\* build() called by the caller; without a build_path the attribute is
\* missing and the call raises before any engine call.
Build(b) ==
    /\ Handle("build")
    /\ UNCHANGED orphan
    /\ UNCHANGED <<build_path, container, _ip, alive, addrs, exitWarnings, resolves>>
    /\ IF ~build_path
       THEN /\ call' = Call("build", Raised, "AttributeError", "", 0, 0, 0, 0, 0)
            /\ UNCHANGED built
       ELSE /\ built' = build(b)
            /\ call' = Call("build", IF b = 0 THEN RetName ELSE Absent,
                            "none", "", 0, 0, 1, 0, 0)

\* -------------------------------------------------------------- Image.run
\* Whether run returns the container it has instead of starting one.
\* run_returns_existing as it would be if run never looked at self.running.
run_always_starts(r) == FALSE

run_returns_existing(r) == r.val

\* run(environment) with exit status b of the build it may make, inspect
\* outcome o, exit status s of docker run and the address a the engine gives
\* the new container.  The environment only adds -e arguments.
Run(b, o, s, a) ==
    LET nb == builds_made
        r == running(o)
        new == Len(addrs) + 1
    IN
    /\ Handle("run")
    /\ UNCHANGED orphan
    /\ built' = ensure_built(b)
    /\ UNCHANGED <<build_path, _ip>>
    /\ IF r.exc # "none"
       THEN /\ call' = Call("run", Raised, r.exc, "inspect", r.inspects, 0, nb, 0, 0)
            /\ container' = r.container
            /\ UNCHANGED <<alive, addrs, exitWarnings, resolves>>
       ELSE IF run_returns_existing(r)
       THEN /\ call' = Call("run", RetId(container), "none", "",
                            r.inspects, 0, nb, 0, 0)
            /\ container' = r.container
            /\ UNCHANGED <<alive, addrs, exitWarnings, resolves>>
       ELSE IF s = 0
       THEN /\ container' = new
            /\ alive' = alive \cup {new}
            /\ addrs' = Append(addrs, a)
            /\ exitWarnings' = 0
            /\ resolves' = 0
            /\ call' = Call("run", RetId(new), "none", "",
                            r.inspects, 0, nb, 1, r.warns)
       ELSE /\ call' = Call("run", Raised, "CalledProcessError", "run",
                            r.inspects, 0, nb, 1, r.warns)
            /\ container' = r.container
            /\ exitWarnings' = Warned(r)
            /\ UNCHANGED <<alive, addrs, resolves>>

\* ------------------------------------------------------------- Image.stop
Stop(o, s) ==
    LET r == running(o) IN
    /\ Handle("stop")
    /\ UNCHANGED orphan
    /\ UNCHANGED <<build_path, built, _ip, addrs, resolves>>
    /\ exitWarnings' = Warned(r)
    /\ IF r.exc # "none"
       THEN /\ call' = Call("stop", Raised, r.exc, "inspect", r.inspects, 0, 0, 0, 0)
            /\ container' = r.container
            /\ UNCHANGED alive
       ELSE IF ~r.val
       THEN /\ call' = Call("stop", Absent, "none", "", r.inspects, 0, 0, 0, r.warns)
            /\ container' = r.container
            /\ UNCHANGED alive
       ELSE IF s # 0
       THEN /\ call' = Call("stop", Raised, "CalledProcessError", "stop",
                            r.inspects, 0, 0, 0, 0)
            /\ UNCHANGED <<container, alive>>
       ELSE /\ alive' = alive \ {container}
            /\ container' = None
            /\ call' = Call("stop", RetId(container), "none", "",
                            r.inspects, 0, 0, 0, 0)

\* ------------------------------------------- Image.pull, push and export
Pull(s) ==
    /\ call' = Call("pull", IF s # 0 THEN Absent ELSE RetName,
                    "none", "", 0, 0, 0, 0, 0)
    /\ Handle("pull")
    /\ UNCHANGED orphan
    /\ UNCHANGED <<build_path, built, container, _ip, alive, addrs,
                   exitWarnings, resolves>>

\* push(location) with the exit statuses of build, docker tag and docker push.
Push(b, t, p) ==
    /\ built' = ensure_built(b)
    /\ call' = Call("push", IF t # 0 \/ p # 0 THEN Absent ELSE RetName,
                    "none", "", 0, 0, builds_made, 0, 0)
    /\ Handle("push")
    /\ UNCHANGED orphan
    /\ UNCHANGED <<build_path, container, _ip, alive, addrs, exitWarnings, resolves>>

\* export() with the exit statuses of build and docker save.  The temporary
\* archive is made with delete=False before docker save runs; whether the
\* call leaves it on disk without returning its path.
unreturned(s) == s # 0

Export(b, s) ==
    /\ built' = ensure_built(b)
    /\ call' = Call("export", IF s # 0 THEN Absent ELSE RetName,
                    "none", "", 0, 0, builds_made, 0, 0)
    /\ Handle("export")
    /\ orphan' = (orphan \/ unreturned(s))
    /\ UNCHANGED <<build_path, container, _ip, alive, addrs, exitWarnings, resolves>>

\* ------------------------------------------ Image._get_exposed_port_strings
\* Keys of .Config.ExposedPorts: a port number and a protocol.
PortKeys == {<<80, "tcp">>, <<443, "tcp">>, <<53, "udp">>}

\* The port maps an image can declare: their keys in order, no key twice.
PortMaps ==
    {m \in UNION {[1..n -> PortKeys] : n \in 0..MaxPorts} :
        \A i, j \in DOMAIN m : m[i] = m[j] => i = j}

\* What docker inspect --format={{json .Config.ExposedPorts}} answers: a
\* non-zero exit, or the map (null and {} are the empty map).
PortReplies ==
    {[status |-> "error", map |-> <<>>]}
        \cup {[status |-> "ok", map |-> m] : m \in PortMaps}

\* The engine is asked about the ports only when a container is held.
Replies ==
    IF container = None THEN {[status |-> "error", map |-> <<>>]}
    ELSE PortReplies

\* The numbers of the tcp ports of map m, in the order of the map.
RECURSIVE TcpOf(_)
TcpOf(m) ==
    IF m = <<>> THEN <<>>
    ELSE (IF Head(m)[2] = "tcp" THEN <<Head(m)[1]>> ELSE <<>>) \o TcpOf(Tail(m))

\* What is kept of the engine's reply: whether it answered, whether the
\* image declares no port at all, and the tcp ports it declares, in order.
Answer(reply) ==
    [status |-> reply.status, none |-> reply.map = <<>>,
     tcp |-> TcpOf(reply.map)]

\* An Optional[List]: None, or a list.
NoList == [none |-> TRUE, list |-> <<>>]
List(l) == [none |-> FALSE, list |-> l]

_get_exposed_port_strings(reply) ==
    IF reply.status = "error" THEN NoList
    ELSE IF reply.map = <<>> THEN NoList
    ELSE List(reply.map)

\* ---------------------------------------------------- Image.ports_by_protocol
\* ports_by_protocol as it would be if it listed the ports last to first.
ports_by_protocol_reversed(raw_ports, protocol) ==
    IF raw_ports.none \/ raw_ports.list = <<>> THEN NoList
    ELSE LET kept == SelectSeq(raw_ports.list, LAMBDA k : k[2] = protocol)
         IN List([i \in 1..Len(kept) |-> kept[Len(kept) + 1 - i][1]])

ports_by_protocol(raw_ports, protocol) ==
    IF raw_ports.none \/ raw_ports.list = <<>> THEN NoList
    ELSE LET kept == SelectSeq(raw_ports.list, LAMBDA k : k[2] = protocol)
         IN List([i \in 1..Len(kept) |-> kept[i][1]])

\* The list the caller gets: its content is not kept in call.
RetList == [kind |-> "list", id |-> 0, str |-> ""]

\* ports_by_protocol("tcp") called by the caller, with the exit status b of
\* the build _get_exposed_port_strings may make and the engine's reply.
PortsByProtocol(b, reply) ==
    LET p == ports_by_protocol(_get_exposed_port_strings(reply), "tcp")
    IN
    /\ Handle("ports")
    /\ UNCHANGED orphan
    /\ built' = ensure_built(b)
    /\ call' = Call("ports", IF p.none THEN Absent ELSE RetList,
                    "none", "", 0, 0, builds_made, 0, 0)
    /\ UNCHANGED <<build_path, container, _ip, alive, addrs, exitWarnings, resolves>>

\* ----------------------------------------------- Image.wait_for_exposed_ports
Pending == [kind |-> "pending", id |-> 0, str |-> ""]

\* The timeouts a caller gives, in seconds.
Timeouts == 0..MaxTimeout

\* What connect_ex returns: 0, or an error number.
ConnectResults == {0, 1}

\* How long one connect_ex takes: at most the socket's timeout.
ConnectTimes == 0..ConnectTimeout

\* The while condition of the loop of one port.
\* before_deadline as it would be with <= for <.
before_deadline_inclusive(e, t) == e <= t

before_deadline(e, t) == e < t

\* wait_returns_early as it would be without the check of self.running.
wait_never_returns_early(r) == FALSE

\* Whether the call returns False before asking for the ports.
wait_returns_early(r) == ~r.val

\* The call, up to the first evaluation of the while condition: inspect
\* outcome o, build exit status b, the engine's answer reply about the ports.
WaitBegin(t, o, b, reply) ==
    LET r == running(o)
        nb == builds_made
        p == ports_by_protocol(_get_exposed_port_strings(reply), "tcp")
    IN
    /\ wpc = "idle"
    /\ UNCHANGED <<name, basename, orphan, testVars>>
    /\ prev' = Other
    /\ container' = r.container
    /\ exitWarnings' = Warned(r)
    /\ UNCHANGED <<build_path, _ip, alive, addrs, resolves>>
    /\ timeout' = t
    /\ port' = 1
    /\ elapsed' = 0
    /\ attemptedAt' = <<>>
    /\ acceptedAt' = <<>>
    /\ tried' = 0
    /\ timeoutWarnings' = 0
    /\ IF r.exc # "none"
       THEN /\ call' = Call("wait", Raised, r.exc, "inspect", r.inspects, 0, 0, 0, 0)
            /\ wpc' = "idle"
            /\ ports' = <<>>
            /\ exposed' = Unasked
            /\ UNCHANGED built
       ELSE IF wait_returns_early(r)
       THEN /\ call' = Call("wait", RetBool(FALSE), "none", "",
                            r.inspects, 0, 0, 0, r.warns)
            /\ wpc' = "idle"
            /\ ports' = <<>>
            /\ exposed' = Unasked
            /\ UNCHANGED built
       ELSE /\ built' = ensure_built(b)
            /\ exposed' = Answer(reply)
            /\ IF p.none
               THEN \* for port in None
                    /\ call' = Call("wait", Raised, "TypeError", "for",
                                    r.inspects, 0, nb, 0, 0)
                    /\ wpc' = "idle"
                    /\ ports' = <<>>
               ELSE IF p.list = <<>>
               THEN /\ call' = Call("wait", RetBool(TRUE), "none", "",
                                    r.inspects, 0, nb, 0, 0)
                    /\ wpc' = "idle"
                    /\ ports' = <<>>
               ELSE /\ call' = Call("wait", Pending, "none", "",
                                    r.inspects, 0, nb, 0, 0)
                    /\ wpc' = "loop"
                    /\ ports' = p.list

\* How the call ends.
WaitEnd(r, e, at) ==
    /\ wpc' = "idle"
    /\ call' = [call EXCEPT !.ret = r, !.exc = e, !.at = at]

\* One evaluation of the while condition and, when it holds, one pass of the
\* loop body: self.ip (inspect outcome o, resolve outcome res), then
\* connect_ex, returning c after d seconds.
WaitStep(o, res, c, d) ==
    /\ wpc = "loop"
    /\ UNCHANGED <<name, basename, orphan, testVars>>
    /\ UNCHANGED <<build_path, built, alive, addrs, prev, timeout, ports,
                   exposed>>
    /\ IF ~before_deadline(elapsed, timeout)
       THEN /\ timeoutWarnings' = Sat(timeoutWarnings)
            /\ WaitEnd(RetBool(FALSE), "none", "")
            /\ UNCHANGED <<container, _ip, exitWarnings, resolves, port,
                           elapsed, attemptedAt, acceptedAt, tried>>
       ELSE LET a == ip(o, res) IN
            /\ container' = a.r.container
            /\ exitWarnings' = Warned(a.r)
            /\ _ip' = a.cache
            /\ resolves' = Resolved(a)
            /\ UNCHANGED timeoutWarnings
            /\ IF a.exc # "none"
               THEN /\ WaitEnd(Raised, a.exc, a.at)
                    /\ UNCHANGED <<port, elapsed, attemptedAt, acceptedAt, tried>>
               ELSE IF a.val = NoIp
               THEN \* connect_ex((None, port))
                    /\ WaitEnd(Raised, "TypeError", "connect_ex")
                    /\ UNCHANGED <<port, elapsed, attemptedAt, acceptedAt, tried>>
               ELSE /\ tried' = port
                    /\ elapsed' = elapsed + d
                    /\ IF c = 0
                       THEN /\ attemptedAt' = Append(attemptedAt, elapsed)
                            /\ acceptedAt' = Append(acceptedAt, elapsed + d)
                            /\ IF port = Len(ports)
                               THEN /\ WaitEnd(RetBool(TRUE), "none", "")
                                    /\ UNCHANGED port
                               ELSE /\ port' = port + 1
                                    /\ UNCHANGED <<wpc, call>>
                       ELSE UNCHANGED <<wpc, call, port, attemptedAt, acceptedAt>>

\* Time passes inside wait_for_exposed_ports.
Tick ==
    /\ wpc = "loop"
    /\ elapsed < timeout
    /\ elapsed' = elapsed + 1
    /\ UNCHANGED <<name, basename, orphan, testVars>>
    /\ UNCHANGED <<build_path, built, container, _ip, alive, addrs,
                   exitWarnings, resolves, call, prev, wpc, timeout, ports,
                   port, attemptedAt, acceptedAt, tried, timeoutWarnings,
                   exposed>>

\* ------------------------------------------------------------ environment
\* A running container exits on its own.
Die(c) ==
    /\ c \in alive
    /\ alive' = alive \ {c}
    /\ UNCHANGED <<build_path, built, container, _ip, addrs, exitWarnings,
                   resolves, call, prev>>
    /\ UNCHANGED waitVars
    /\ UNCHANGED <<name, basename, orphan, testVars>>

\* ================================================================== Test
\* error = None, result = None
NoError == "None"
NoResult == -1

\* What the caller of Test.run gets: a CompletedProcess with a return code,
\* or an exception.
NoOutcome == [kind |-> "none", code |-> NoResult, exc |-> NoError]
Returned(c) == [kind |-> "return", code |-> c, exc |-> NoError]
Propagated(e) == [kind |-> "raise", code |-> NoResult, exc |-> e]

\* Exceptions of the filesystem calls of the setup; KeyboardInterrupt is no
\* Exception, the except clause does not catch it.
SetupErrors == {"FileNotFoundError", "PermissionError", "KeyboardInterrupt"}
IsException(e) == e # "KeyboardInterrupt"

\* How a filesystem call of the setup ends.
SetupOutcomes == {"ok"} \cup SetupErrors

\* Return codes of the script.
ReturnCodes == {0, 1, 7}

\* How subprocess.run ends: the script's return code, the timeout, or the
\* script cannot be executed.
ExecOutcomes ==
    {[how |-> "exit", code |-> c] : c \in ReturnCodes}
        \cup {[how |-> e, code |-> NoResult] : e \in {"TimeoutExpired", "OSError"}}

\* except Exception as e: error = e; anything else goes through to finally.
except(e) == IF IsException(e) THEN e ELSE NoError
uncaught(e) == IF IsException(e) THEN NoError ELSE e

\* An exception e leaves the try block at any of its statements.
Throw(e) ==
    /\ thrown' = e
    /\ error' = except(e)
    /\ pending' = uncaught(e)
    /\ tpc' = "finally"

\* -------------------------------------------------------------- paths
\* A path is the sequence of its parts, as pathlib has them: "/" first when
\* it is absolute.  f, d/f, ../f and /f.
Paths == {<<"f">>, <<"d", "f">>, <<"..", "f">>, <<"/", "f">>}

is_absolute(p) == p # <<>> /\ Head(p) = "/"

\* Path(a, p) and a / p: an absolute p replaces a.
JoinPath(a, p) == IF is_absolute(p) THEN p ELSE a \o p

\* The directory self.base_path, and the directory mkdtemp made for the
\* call of run in progress.
BasePath == <<"/", "chal">>
TempDir == <<"/", "tmp", "tmpdir">>

\* Where path p is once the system has followed its ".." parts.
RECURSIVE Resolve(_)
Resolve(p) ==
    IF p = <<>> THEN <<>>
    ELSE LET up == Resolve(SubSeq(p, 1, Len(p) - 1))
             last == p[Len(p)]
         IN IF last # ".." THEN Append(up, last)
            ELSE IF Len(up) <= 1 THEN up
            ELSE SubSeq(up, 1, Len(up) - 1)

\* Whether path p is below directory dir.
Below(p, dir) ==
    LET r == Resolve(p) IN
    Len(r) > Len(dir) /\ SubSeq(r, 1, Len(dir)) = dir

\* ---------------------------------------------------------- Test.__init__
\* What a required path is under base_path.
Kinds == {"file", "dir", "missing"}

\* The files arguments: up to MaxFiles paths, each with what it is on disk.
Required ==
    UNION {[1..n -> [path : Paths, kind : Kinds]] : n \in 0..MaxFiles}

NotGiven == [script |-> <<>>, files |-> <<>>]
NotConstructed == [exc |-> "unset", file |-> <<>>, script |-> <<>>]

\* kind_error as it would be if only exists() were checked.
kind_error_exists_only(k) ==
    IF k = "missing" THEN "FileNotFoundError" ELSE "none"

\* The exception __init__ raises for a required path of kind k: exists() is
\* checked first, then is_file().
kind_error(k) ==
    IF k = "missing" THEN "FileNotFoundError"
    ELSE IF k # "file" THEN "ValueError"
    ELSE "none"

\* The loop of __init__ over files req from index i: the exception of the
\* first path that has one and that path, both messages naming the script.
RECURSIVE validate(_, _, _)
validate(req, i, s) ==
    IF i > Len(req) THEN [exc |-> "none", file |-> <<>>, script |-> <<>>]
    ELSE IF kind_error(req[i].kind) # "none"
    THEN [exc |-> kind_error(req[i].kind), file |-> req[i].path, script |-> s]
    ELSE validate(req, i + 1, s)

\* Test(s, type, req, base_path): the instance exists only when the loop
\* raised nothing.  The script itself is not looked at.
TestInit(s, req) ==
    LET v == validate(req, 1, s) IN
    /\ tpc = "new"
    /\ init = NotConstructed
    /\ given' = [script |-> s, files |-> req]
    /\ init' = v
    /\ IF v.exc = "none"
       THEN /\ files' = [i \in DOMAIN req |-> req[i].path]
            /\ scriptPath' = s
            /\ tpc' = "idle"
       ELSE UNCHANGED <<files, scriptPath, tpc>>
    /\ UNCHANGED <<imageVars, waitVars, outside, disk, made, temp_dir, file,
                   error, result, pending, thrown, script, outcome>>

\* Test.run entered: mkdtemp makes the private directory, or raises before
\* the try block.
TestRun(m) ==
    /\ tpc = "idle"
    /\ UNCHANGED outside
    /\ made < MaxTestRuns
    /\ UNCHANGED <<imageVars, waitVars, testArgs>>
    /\ result' = NoResult
    /\ error' = NoError
    /\ pending' = NoError
    /\ thrown' = NoError
    /\ script' = "none"
    /\ file' = 1
    /\ IF m = "ok"
       THEN /\ made' = made + 1
            /\ temp_dir' = made + 1
            /\ disk' = disk \cup {made + 1}
            /\ tpc' = "copy_files"
            /\ outcome' = NoOutcome
       ELSE /\ outcome' = Propagated(m)
            /\ UNCHANGED <<made, temp_dir, disk, tpc>>

\* shutil.copy2(base_path / p, Path(temp_dir, p)) that the filesystem ends
\* with c: copying a file onto itself raises SameFileError.
copy2(p, c) ==
    IF c # "ok" THEN c
    ELSE IF JoinPath(BasePath, p) = JoinPath(TempDir, p)
    THEN "SameFileError"
    ELSE "ok"

\* The paths outside temp_dir once p has been copied to Path(temp_dir, p).
written(p) ==
    IF Below(JoinPath(TempDir, p), TempDir) THEN outside
    ELSE outside \cup {p}

\* One pass of `for file in self.files`: makedirs and copy2.
TestCopyFile(c) ==
    /\ tpc = "copy_files"
    /\ UNCHANGED <<imageVars, waitVars, testArgs, disk, made, temp_dir, result,
                   script, outcome>>
    /\ IF file > Len(files)
       THEN /\ tpc' = "copy_script"
            /\ UNCHANGED <<file, error, pending, thrown, outside>>
       ELSE IF copy2(files[file], c) = "ok"
       THEN /\ file' = file + 1
            /\ outside' = written(files[file])
            /\ UNCHANGED <<tpc, error, pending, thrown>>
       ELSE /\ Throw(copy2(files[file], c))
            /\ UNCHANGED <<file, outside>>

\* makedirs and copy2 of the script, then stat and chmod.
TestCopyScript(c) ==
    /\ tpc = "copy_script"
    /\ UNCHANGED <<imageVars, waitVars, testArgs, disk, made, temp_dir, result,
                   script, outcome, file>>
    /\ IF copy2(scriptPath, c) = "ok"
       THEN /\ tpc' = "chmod"
            /\ outside' = written(scriptPath)
            /\ UNCHANGED <<error, pending, thrown>>
       ELSE /\ Throw(copy2(scriptPath, c))
            /\ UNCHANGED outside

TestChmod(c) ==
    /\ tpc = "chmod"
    /\ UNCHANGED outside
    /\ UNCHANGED <<imageVars, waitVars, testArgs, disk, made, temp_dir, result,
                   script, outcome, file>>
    /\ IF c = "ok"
       THEN /\ tpc' = "exec"
            /\ UNCHANGED <<error, pending, thrown>>
       ELSE Throw(c)

\* subprocess.run([script_path], ..., timeout=timeout)
TestExec(x) ==
    /\ tpc = "exec"
    /\ UNCHANGED outside
    /\ UNCHANGED <<imageVars, waitVars, testArgs, disk, made, temp_dir,
                   outcome, file>>
    /\ IF x.how = "exit"
       THEN /\ result' = x.code
            /\ script' = "exit"
            /\ tpc' = "finally"
            /\ UNCHANGED <<error, pending, thrown>>
       ELSE /\ script' = IF x.how = "TimeoutExpired" THEN "timeout" ELSE "none"
            /\ Throw(x.how)
            /\ UNCHANGED result

\* shutil.rmtree(temp_dir): the directories left on disk.
\* rmtree as it would be if the directory were removed only when the try
\* block ended without an exception.
rmtree_on_success_only(d) ==
    IF error = NoError /\ pending = NoError THEN disk \ {d} ELSE disk

rmtree(d) == disk \ {d}

\* finally: delete the temporary files.
TestFinally ==
    /\ tpc = "finally"
    /\ UNCHANGED outside
    /\ disk' = rmtree(temp_dir)
    /\ tpc' = "return"
    /\ UNCHANGED <<imageVars, waitVars, testArgs, made, temp_dir, file, error,
                   result, pending, thrown, script, outcome>>

\* What leaves run after the finally clause: the exception that went
\* through it, else `raise error` if there is one, else `return result`.
\* leave as it would be if the caught exception were dropped.
leave_swallows_error(p, e, r) ==
    IF p # NoError THEN Propagated(p) ELSE Returned(r)

leave(p, e, r) ==
    IF p # NoError THEN Propagated(p)
    ELSE IF e # NoError THEN Propagated(e)
    ELSE Returned(r)

TestReturn ==
    /\ tpc = "return"
    /\ UNCHANGED outside
    /\ outcome' = leave(pending, error, result)
    /\ tpc' = "idle"
    /\ UNCHANGED <<imageVars, waitVars, testArgs, disk, made, temp_dir, file,
                   error, result, pending, thrown, script>>

\* ------------------------------------------------------------------- spec
vars == <<name, basename, orphan, build_path, built, container, _ip, alive, addrs,
          exitWarnings, resolves, call, prev, wpc, timeout, ports, port,
          elapsed, attemptedAt, acceptedAt, tried, timeoutWarnings, exposed,
          files, scriptPath, given, init, outside,
          disk, made, tpc, temp_dir, file, error, result, pending,
          thrown, script, outcome>>

\* Image.__init__: built unless a build_path is given, no container, no
\* cached address.
Init ==
    /\ name = <<>>
    /\ basename = <<>>
    /\ orphan = FALSE
    /\ build_path \in BOOLEAN
    /\ built = ~build_path
    /\ container = None
    /\ _ip = NoIp
    /\ alive = {}
    /\ addrs = <<>>
    /\ exitWarnings = 0
    /\ resolves = 0
    /\ call = NoCall
    /\ prev = Other
    /\ wpc = "idle"
    /\ timeout = 0
    /\ ports = <<>>
    /\ port = 1
    /\ elapsed = 0
    /\ attemptedAt = <<>>
    /\ acceptedAt = <<>>
    /\ tried = 0
    /\ timeoutWarnings = 0
    /\ exposed = Unasked
    /\ files = <<>>
    /\ scriptPath = <<>>
    /\ given = NotGiven
    /\ init = NotConstructed
    /\ outside = {}
    /\ disk = {}
    /\ made = 0
    /\ tpc = "new"
    /\ temp_dir = 0
    /\ file = 1
    /\ error = NoError
    /\ result = NoResult
    /\ pending = NoError
    /\ thrown = NoError
    /\ script = "none"
    /\ outcome = NoOutcome

Next ==
    \/ \E o \in InspectOutcomes : IsRunning(o)
    \/ \E o \in InspectOutcomes, res \in ResolveInputs : Ip(o, res)
    \/ \E b \in ExitCodes : Build(b)
    \/ \E b \in BuildExits, o \in InspectOutcomes, s \in StartExits, a \in Addrs :
          Run(b, o, s, a)
    \/ \E o \in InspectOutcomes, s \in ExitCodes : Stop(o, s)
    \/ \E s \in ExitCodes : Pull(s)
    \/ \E b \in BuildExits, t \in ExitCodes, p \in ExitCodes : Push(b, t, p)
    \/ \E c \in alive : Die(c)

\* The operations of a handle on its container and its image, the container
\* exiting at any time.
Spec == Init /\ [][Next]_vars

\* Image(name) for the names an image can have.
NextName == \E n \in Names : ImageInit(n)

SpecName == Init /\ [][NextName]_vars

\* The operations that need the image built and what they leave on disk:
\* build, run, pull, push, export and ports_by_protocol.
NextArtifacts ==
    \/ \E b \in ExitCodes : Build(b)
    \/ \E b \in BuildExits, o \in InspectOutcomes, s \in StartExits, a \in Addrs :
          Run(b, o, s, a)
    \/ \E s \in ExitCodes : Pull(s)
    \/ \E b \in BuildExits, t \in ExitCodes, p \in ExitCodes : Push(b, t, p)
    \/ \E b \in BuildExits, s \in ExitCodes : Export(b, s)
    \/ \E b \in BuildExits, reply \in PortReplies : PortsByProtocol(b, reply)
    \/ \E c \in alive : Die(c)

SpecArtifacts == Init /\ [][NextArtifacts]_vars

\* The flow of the orchestrator (spec section 2): it calls run until a
\* container is started, waits for its ports and stops it, the container
\* exiting at any time.
NextWait ==
    \/ \E b \in BuildExits, o \in InspectOutcomes, s \in StartExits, a \in Addrs :
          addrs = <<>> /\ Run(b, o, s, a)
    \/ \E o \in InspectOutcomes, s \in ExitCodes : Stop(o, s)
    \/ \E t \in Timeouts, o \in InspectOutcomes, b \in BuildExits,
          reply \in Replies : WaitBegin(t, o, b, reply)
    \/ \E o \in InspectOutcomes, res \in ResolveInputs,
          c \in ConnectResults, d \in ConnectTimes : WaitStep(o, res, c, d)
    \/ Tick
    \/ \E c \in alive : Die(c)

SpecWait == Init /\ [][NextWait]_vars

\* A call of wait_for_exposed_ports in progress goes on: the while condition
\* is evaluated again after every pass (each connect_ex returns within its
\* timeout), and default_timer() advances.
SpecWaitFair ==
    /\ SpecWait
    /\ WF_vars(Tick)
    /\ WF_vars(\E o \in InspectOutcomes, res \in ResolveInputs,
                  c \in ConnectResults, d \in ConnectTimes : WaitStep(o, res, c, d))

\* Calls of Test.run.
NextTest ==
    \/ tpc = "new" /\ \E s \in Paths, req \in Required : TestInit(s, req)
    \/ \E m \in {"ok", "OSError"} : TestRun(m)
    \/ \E c \in SetupOutcomes : TestCopyFile(c)
    \/ \E c \in SetupOutcomes : TestCopyScript(c)
    \/ \E c \in SetupOutcomes : TestChmod(c)
    \/ \E x \in ExecOutcomes : TestExec(x)
    \/ TestFinally
    \/ TestReturn

SpecTest == Init /\ [][NextTest]_vars

\* ================================================================ claims

\* C1: the cached address is set only while a container is held: whenever
\* self.container is None, and so after running has found the container
\* dead, self._ip holds no address.
C1_AddressOnlyWhileContainer == Truthy(_ip) => container # None

\* C2: when run is called twice in a row and the second call neither raises
\* nor finds the container dead, it returns the identifier the first call
\* returned and sends no start request to the engine.
C2_RunTwiceSameContainer ==
    (/\ call.op = "run" /\ prev.op = "run" /\ prev.ret.kind = "id"
     /\ call.exc = "none" /\ call.warns = 0)
        => call.ret = prev.ret /\ call.starts = 0

\* C2 happens: a second run in a row returned the container of the first
\* after asking the engine whether it runs.
C2_Witness ==
    /\ call.op = "run" /\ prev.op = "run" /\ prev.ret.kind = "id"
    /\ call.ret = prev.ret /\ call.starts = 0 /\ call.inspects = 1
    /\ container = call.ret.id

\* C3: when the build that run makes fails (a build was made and the image
\* is still not built), run returns absent, sends no start request and
\* leaves no container in the handle.
C3_FailedBuildStopsRun ==
    (call.op = "run" /\ call.builds = 1 /\ ~built)
        => call.ret = Absent /\ call.starts = 0 /\ container = None

\* C4: once Test.run has left its finally clause, and so whenever its caller
\* holds a result or an exception of it, the private directory of the call
\* is no longer on disk.
C4_PrivateDirRemoved ==
    (tpc \in {"return", "idle"} \/ outcome.kind # "none") => disk = {}

\* C4 happens: a call whose script timed out has returned to its caller.
C4_Witness ==
    /\ tpc = "idle" /\ made > 0 /\ temp_dir = made
    /\ thrown = "TimeoutExpired" /\ outcome.kind = "raise" /\ disk = {}

\* C5: a script that ends with return code c makes run return a result with
\* code c; a timeout makes run raise TimeoutExpired; any exception raised
\* inside the try block reaches the caller as that same exception.
C5_OutcomeFollowsScript ==
    (tpc = "idle" /\ temp_dir # 0) =>
        /\ script = "exit" => outcome = Returned(result) /\ result \in ReturnCodes
        /\ script = "timeout" => outcome = Propagated("TimeoutExpired")
        /\ thrown # NoError => outcome = Propagated(thrown)
        /\ (script # "exit" /\ thrown = NoError) => outcome.kind = "raise"

\* C5 happens: the script exited with code 7 and run returned it.
C5_Witness ==
    /\ tpc = "idle" /\ script = "exit" /\ result = 7 /\ outcome = Returned(7)

\* C6: a non-zero exit of the engine's build, run, stop, pull, push or export
\* command never reaches the caller as an exception.
C6_EngineFailureNeverRaises ==
    call.at \in {"build", "run", "stop", "pull", "push", "export"}
        => call.exc = "none"

\* C7: the unexpected exit of a container is warned about at most once; the
\* read of running that the engine answers with not-running warns once,
\* clears the container and returns false; a read of running that follows
\* one that returned false returns false without asking the engine and
\* without a warning.
C7_ExitWarnedOnce ==
    /\ exitWarnings <= 1
    /\ (call.op = "running" /\ call.ret.kind = "false" /\ call.inspects = 1)
          => call.warns = 1 /\ exitWarnings = 1 /\ container = None
    /\ (call.op = "running" /\ call.warns # 0)
          => call.warns = 1 /\ call.ret.kind = "false" /\ container = None
    /\ (call.op = "running" /\ prev.op = "running" /\ prev.ret.kind = "false")
          => call.ret.kind = "false" /\ call.warns = 0 /\ call.inspects = 0

\* C7 happens: running was read again after the read that found the
\* container dead.
C7_Witness ==
    /\ call.op = "running" /\ prev.op = "running" /\ prev.ret.kind = "false"
    /\ exitWarnings = 1 /\ container = None /\ Len(addrs) > 0
    /\ call.ret.kind = "false" /\ call.warns = 0 /\ call.inspects = 0

\* C8: while no container was ever started, and right after a stop() that
\* returned the identifier of the container run started, a read of running
\* returns false, asks the engine nothing and warns about nothing.
C8_NoInspectWithoutContainer ==
    /\ (call.op = "stop" /\ call.ret.kind = "id")
          => call.ret.id = Len(addrs) /\ container = None
    /\ (call.op = "running"
        /\ (addrs = <<>> \/ (prev.op = "stop" /\ prev.ret.kind = "id")))
          => call.ret.kind = "false" /\ call.inspects = 0 /\ call.warns = 0

\* C8 happens: running was read right after a stop() that returned the
\* container.
C8_Witness ==
    /\ call.op = "running" /\ prev.op = "stop" /\ prev.ret.kind = "id"
    /\ call.ret.kind = "false" /\ call.inspects = 0 /\ exitWarnings = 0

\* C9 as claimed: the engine is asked for the address at most once between
\* two starts, two reads of ip in a row that both return a value return the
\* same value, and ip returns absent when no container runs.
C9_ResolvedAtMostOnce ==
    /\ resolves <= 1
    /\ (call.op = "ip" /\ prev.op = "ip" /\ prev.ret.kind = "str"
        /\ call.ret.kind = "str") => call.ret = prev.ret
    /\ (call.op = "ip" /\ call.exc = "none" /\ container = None)
          => call.ret = Absent

\* C9 as amended: once ip has returned a non-empty address, a read of ip
\* right after it that returns a value returns that address and does not ask
\* the engine; while an address is cached no read asks the engine for it;
\* ip returns absent when no container runs.
C9_NoResolveAfterSuccess ==
    /\ [](/\ (call.op = "ip" /\ prev.op = "ip" /\ prev.ret.kind = "str"
              /\ Truthy(prev.ret.str) /\ call.ret.kind = "str")
                => call.ret = prev.ret /\ call.resolves = 0
          /\ (call.op = "ip" /\ call.exc = "none" /\ container = None)
                => call.ret = Absent
          /\ (call.op = "ip" /\ call.ret.kind = "str") => container \in 1..Len(addrs))
    /\ [][Truthy(_ip) => (resolves' = resolves \/ resolves' = 0)]_vars

\* C9 happens: ip was read twice in a row while the container ran, the
\* engine was asked once.
C9_Witness ==
    /\ call.op = "ip" /\ prev.op = "ip" /\ Truthy(prev.ret.str)
    /\ call.ret = prev.ret /\ call.resolves = 0 /\ resolves = 1
    /\ container \in alive

\* Whether wait_for_exposed_ports has returned a boolean from its loop.
WaitReturned(k) ==
    wpc = "idle" /\ call.op = "wait" /\ call.ret.kind = k /\ ports # <<>>

\* C10 as claimed: wait_for_exposed_ports returns true only if every port
\* accepted a connection before the timeout had elapsed, and returns false
\* with a warning otherwise.
C10_AcceptedBeforeDeadline ==
    /\ WaitReturned("true") =>
          /\ Len(acceptedAt) = Len(ports)
          /\ \A i \in 1..Len(ports) : acceptedAt[i] < timeout
    /\ WaitReturned("false") => timeoutWarnings = 1

\* C10 as amended: wait_for_exposed_ports returns true only if every port
\* accepted a connection in an attempt that began before the timeout had
\* elapsed (the connection itself may come up to the socket's timeout
\* later), then without a warning; when it returns false from its loop the
\* timeout has elapsed with a port not connected, and it warned once.
C10_AttemptedBeforeDeadline ==
    /\ WaitReturned("true") =>
          /\ Len(acceptedAt) = Len(ports) /\ Len(attemptedAt) = Len(ports)
          /\ \A i \in 1..Len(ports) :
                /\ attemptedAt[i] < timeout
                /\ acceptedAt[i] <= attemptedAt[i] + ConnectTimeout
          /\ timeoutWarnings = 0
    /\ WaitReturned("false") =>
          /\ timeoutWarnings = 1
          /\ Len(acceptedAt) < Len(ports)
          /\ elapsed >= timeout

\* C10 happens: a wait on two ports returned true, the second port accepted
\* when the timeout had elapsed.
C10_Witness ==
    /\ WaitReturned("true") /\ Len(ports) = 2 /\ Len(acceptedAt) = 2
    /\ attemptedAt[2] < timeout /\ acceptedAt[2] >= timeout

\* C11 - a wait on a running handle whose image declares no exposed ports
\* returns True at once: no connection attempt, nothing raised.
C11_NoPortsReturnsTrue ==
    (/\ wpc = "idle"
     /\ call.op = "wait"
     /\ exposed.status = "ok"
     /\ exposed.none)
        => /\ call.ret = RetBool(TRUE)
           /\ call.exc = "none"
           /\ tried = 0

\* C12 - a wait on a handle that is not running returns False, attempts no
\* connection, asks the engine for no ports, starts no container and leaves
\* the handle without one.
C12_NotRunningReturnsFalse ==
    (/\ wpc = "idle"
     /\ call.op = "wait"
     /\ call.exc = "none"
     /\ container = None)
        => /\ call.ret = RetBool(FALSE)
           /\ tried = 0
           /\ timeoutWarnings = 0
           /\ exposed = Unasked
           /\ call.starts = 0

\* A wait found the container of the handle exited and returned False.
C12_Witness ==
    /\ wpc = "idle"
    /\ call.op = "wait"
    /\ call.ret = RetBool(FALSE)
    /\ call.warns = 1
    /\ container = None
    /\ tried = 0

\* A step of an operation that needs the image built: the last call is one
\* of them and the step is not the container exiting.
NeedsBuild ==
    /\ call'.op \in {"run", "push", "export", "ports"}
    /\ ~ \E c \in alive : Die(c)

\* C13 - build() sets built and returns the name when docker build exits 0,
\* returns None and leaves built as it was on any other exit; run, push,
\* export and ports_by_protocol build exactly when built is unset, so a
\* failed build is tried again by the next of them; built is never unset.
C13_BuildFlag ==
    /\ [][built => built']_vars
    /\ [][NeedsBuild => call'.builds = (IF built THEN 0 ELSE 1)]_vars
    /\ [][(build_path /\ \E b \in ExitCodes : Build(b)) =>
             /\ call'.builds = 1
             /\ call'.ret = RetName => built'
             /\ call'.ret = Absent => built' = built
             /\ call'.ret \in {RetName, Absent}]_vars

\* A push whose build failed was followed by a push that built again, with
\* success.
C13_Witness ==
    /\ prev.op = "push"
    /\ call.op = "push"
    /\ call.builds = 1
    /\ built

\* C19 - after export() a temporary archive is on disk only if its path was
\* returned: a failed docker save leaves none.
C19_NoArchiveLeftOnFailure ==
    (call.op = "export" /\ call.ret = Absent) => ~orphan

\* The name of the repository in reference n: what follows the last "/",
\* without its ":tag".
RepositoryName(n) ==
    LET comps == split(n, "/") IN split(comps[Len(comps)], ":")[1]

\* C15 - basename is the name with its registry and path prefix (all up to
\* the last "/") and its ":tag" suffix removed, also when the registry part
\* carries a port.
C15_BasenameIsRepositoryName ==
    name # <<>> => basename = RepositoryName(name)

\* C16 - an address that ip returns is the address of the container now held:
\* after the container was cleared and run started another one, ip gives the
\* new container's address and never the cached one.
C16_AddressOfCurrentContainer ==
    (call.op = "ip" /\ call.ret.kind = "str" /\ Truthy(call.ret.str))
        => /\ container \in 1..Len(addrs)
           /\ call.ret.str = addrs[container]

\* C17 - the wait goes through the tcp ports in the order the image declares
\* them and is at a port only when every earlier port has accepted; when the
\* deadline ends with a port not connected the call returns False with one
\* timeout warning and has tried no later port.
C17_PortsInOrderAbortOnTimeout ==
    /\ timeoutWarnings <= 1
    /\ call.op = "wait" => ports = exposed.tcp
    /\ wpc = "loop" => port = Len(acceptedAt) + 1
    /\ call.op = "wait" =>
          /\ tried <= Len(acceptedAt) + 1
          /\ tried >= Len(acceptedAt)
          /\ tried > Len(acceptedAt) => wpc = "loop" \/ call.ret.kind # "true"
    /\ \A i, j \in DOMAIN acceptedAt : i < j => acceptedAt[i] <= attemptedAt[j]
    /\ WaitReturned("false") =>
          /\ timeoutWarnings = 1
          /\ Len(acceptedAt) < Len(ports)
          /\ tried <= Len(acceptedAt) + 1
    /\ WaitReturned("true") => timeoutWarnings = 0 /\ tried = Len(ports)

\* The deadline ended with the first of two ports not connected: the call
\* returned False with one warning and never tried the second.
C17_Witness ==
    /\ WaitReturned("false")
    /\ Len(ports) = 2
    /\ tried = 1
    /\ acceptedAt = <<>>
    /\ timeoutWarnings = 1

\* No pass of the loop body begins once the timeout has elapsed: no port is
\* tried or accepted and no time is spent in connect_ex.
NoAttemptAfterDeadline ==
    (wpc = "loop" /\ elapsed >= timeout) =>
        /\ tried' = tried
        /\ acceptedAt' = acceptedAt
        /\ elapsed' = elapsed
        /\ wpc' = "loop" => call' = call

\* The part of C18 that holds: a wait in its loop ends, and no connection is
\* attempted once the timeout has elapsed.
C18_WaitEnds ==
    /\ (wpc = "loop") ~> (wpc = "idle")
    /\ [][NoAttemptAfterDeadline]_vars

\* C18 - a wait that has begun to poll its ports ends, and unless an engine
\* inspection fails it ends by returning True or False; no connection is
\* attempted once the timeout has elapsed.
C18_WaitReturnsTrueOrFalse ==
    /\ (wpc = "loop") ~> (wpc = "idle")
    /\ []((/\ wpc = "idle"
           /\ call.op = "wait"
           /\ ports # <<>>
           /\ call.at \notin {"inspect", "inspect_ip"})
              => call.ret.kind \in {"true", "false"})
    /\ [][NoAttemptAfterDeadline]_vars

\* The required paths, in the order given, that are not plain files.
Offending == {i \in DOMAIN given.files : given.files[i].kind # "file"}

\* C14 - Test() scans the required files in order and raises for the first
\* that is not an existing plain file: FileNotFoundError when it does not
\* exist, ValueError when it exists and is not a file, each naming that path
\* and the script; then no instance is made.  An instance is made exactly
\* when every required path is an existing plain file.
C14_ConstructorFailsFast ==
    /\ init.exc = "none" <=> tpc # "new"
    /\ init.exc # "unset" =>
          /\ init.exc = "none" <=> Offending = {}
          /\ init.exc = "none" =>
                files = [i \in DOMAIN given.files |-> given.files[i].path]
          /\ Offending # {} =>
                LET first == CHOOSE i \in Offending : \A j \in Offending : i <= j
                IN /\ init.file = given.files[first].path
                   /\ init.script = given.script
                   /\ init.exc = IF given.files[first].kind = "missing"
                                 THEN "FileNotFoundError"
                                 ELSE "ValueError"
                   /\ files = <<>>
                   /\ scriptPath = <<>>

\* The first required path was a plain file, the second a directory and not
\* the same path: the constructor raised ValueError naming the second.
C14_Witness ==
    /\ init.exc = "ValueError"
    /\ Len(given.files) = 2
    /\ given.files[1].kind = "file"
    /\ given.files[2].kind = "dir"
    /\ given.files[1].path # given.files[2].path
    /\ init.file = given.files[2].path
    /\ tpc = "new"

\* C20 - whatever the setup of run creates or writes is inside the private
\* directory of the call, also for a required file or a script whose path
\* has ".." parts or is absolute: nothing is copied to a place outside it.
C20_SetupStaysInPrivateDir == outside = {}

====
